---------------------------- MODULE Spec2Model ----------------------------
(***************************************************************************)
(* Bivariate copula families Clayton, Gumbel and Independence              *)
(* (copulas/bivariate/clayton.py, gumbel.py, independence.py).             *)
(*                                                                         *)
(* One family instance (theta, tau, fitted) and a single-threaded caller   *)
(* that invokes one method at a time and observes what it returned or      *)
(* raised.  The base class copulas/bivariate/base.py (fit, check_fit,      *)
(* split_matrix, the constructor) is not among the source files; those     *)
(* parts follow spec.md sections 3, 4.1 and 7 and are marked as such.      *)
(*                                                                         *)
(* Numbers.  A float is modelled as a triple <<kind, n, d>>:               *)
(*   <<"rat", n, d>>   the exact rational n/d (d > 0, lowest terms);       *)
(*   Inf, NInf, NaN    the IEEE specials numpy produces;                   *)
(*   Pos, Neg          a finite non-zero real of that sign whose value is  *)
(*                     not tracked (irrational, or beyond Limit);          *)
(*   Unk               a float about which nothing is tracked;             *)
(*   None              Python's None.                                      *)
(* Arithmetic is exact on rationals and falls to Pos/Neg/Unk only where    *)
(* the exact result is not a rational within Limit.                        *)
(***************************************************************************)
EXTENDS Integers, Sequences, FiniteSets, TLC

\* Largest numerator or denominator kept exactly (2^14, above the sentinel 10000).
Limit == 16384
\* Longest vector or matrix (rows) handed to an evaluator.
MaxLen == 2
\* Largest number of sample pairs handed to fit.
MaxSamples == 4

---------------------------------------------------------------------------
(* Floats *)

Rat(n, d) == <<"rat", n, d>>
Inf == <<"inf", 0, 1>>
NInf == <<"ninf", 0, 1>>
NaN == <<"nan", 0, 1>>
Pos == <<"pos", 0, 1>>
Neg == <<"neg", 0, 1>>
Unk == <<"unk", 0, 1>>
None == <<"none", 0, 1>>
Zero == Rat(0, 1)
One == Rat(1, 1)

IsRat(x) == x[1] = "rat"
IsZero(x) == IsRat(x) /\ x[2] = 0
Abs(i) == IF i < 0 THEN -i ELSE i

RECURSIVE Gcd(_, _)
Gcd(a, b) == IF b = 0 THEN a ELSE Gcd(b, a % b)

\* The float n/d (d # 0): exact when it fits within Limit, else only its sign.
Norm(n, d) ==
    LET s == IF d < 0 THEN -1 ELSE 1
        g == Gcd(Abs(n), Abs(d))
        nn == (s * n) \div g
        dd == (s * d) \div g
    IN  IF nn = 0 THEN Zero
        ELSE IF Abs(nn) > Limit \/ dd > Limit
             THEN (IF nn > 0 THEN Pos ELSE Neg)
             ELSE Rat(nn, dd)

\* -1, 0, 1 for a float of known sign; 2 when the sign is not known (NaN, Unk).
Sign(x) ==
    CASE x[1] = "rat" -> (IF x[2] > 0 THEN 1 ELSE IF x[2] < 0 THEN -1 ELSE 0)
      [] x[1] \in {"inf", "pos"} -> 1
      [] x[1] \in {"ninf", "neg"} -> -1
      [] OTHER -> 2

IsFinite(x) == x[1] \in {"rat", "pos", "neg"}

Negate(x) ==
    CASE x[1] = "rat" -> Rat(-x[2], x[3])
      [] x[1] = "inf" -> NInf
      [] x[1] = "ninf" -> Inf
      [] x[1] = "pos" -> Neg
      [] x[1] = "neg" -> Pos
      [] OTHER -> x

\* x + y in IEEE arithmetic.
Add(x, y) ==
    IF x[1] = "nan" \/ y[1] = "nan" THEN NaN
    ELSE IF x[1] = "unk" \/ y[1] = "unk" THEN Unk
    ELSE IF IsRat(x) /\ IsRat(y) THEN Norm(x[2] * y[3] + y[2] * x[3], x[3] * y[3])
    ELSE IF ~IsFinite(x) /\ ~IsFinite(y) THEN (IF x = y THEN x ELSE NaN)
    ELSE IF ~IsFinite(x) THEN x
    ELSE IF ~IsFinite(y) THEN y
    ELSE IF IsZero(x) THEN y
    ELSE IF IsZero(y) THEN x
    ELSE IF Sign(x) = Sign(y) THEN (IF Sign(x) = 1 THEN Pos ELSE Neg)
    ELSE Unk

Sub(x, y) == Add(x, Negate(y))

\* x * y in IEEE arithmetic.
Mul(x, y) ==
    IF x[1] = "nan" \/ y[1] = "nan" THEN NaN
    ELSE IF x[1] = "unk" \/ y[1] = "unk" THEN Unk
    ELSE IF IsRat(x) /\ IsRat(y)
         THEN LET g1 == Gcd(Abs(x[2]), y[3])
                  g2 == Gcd(Abs(y[2]), x[3])
              IN  Norm((x[2] \div g1) * (y[2] \div g2), (x[3] \div g2) * (y[3] \div g1))
    ELSE IF IsZero(x) \/ IsZero(y)
         THEN (IF IsFinite(x) /\ IsFinite(y) THEN Zero ELSE NaN)
    ELSE IF ~IsFinite(x) \/ ~IsFinite(y)
         THEN (IF Sign(x) = Sign(y) THEN Inf ELSE NInf)
    ELSE IF Sign(x) = Sign(y) THEN Pos ELSE Neg

\* 1 / y as numpy computes it (a zero divisor gives inf with a warning).
Recip(y) ==
    CASE y[1] = "rat" -> (IF y[2] = 0 THEN Inf
                          ELSE IF y[2] > 0 THEN Rat(y[3], y[2])
                          ELSE Rat(-y[3], -y[2]))
      [] y[1] \in {"inf", "ninf"} -> Zero
      [] OTHER -> y

\* x / y on numpy floats: x / 0 is +-inf, 0 / 0 is nan; nothing is raised.
Div(x, y) ==
    IF IsZero(y)
    THEN (CASE Sign(x) = 1 -> Inf
            [] Sign(x) = -1 -> NInf
            [] x[1] = "unk" -> Unk
            [] OTHER -> NaN)
    ELSE IF ~IsFinite(x) /\ y[1] \in {"inf", "ninf"}
         THEN (IF x[1] = "unk" THEN Unk ELSE NaN)
    ELSE Mul(x, Recip(y))

\* x > y for exact operands; FALSE when either is NaN.
Gt(x, y) ==
    IF IsRat(x) /\ IsRat(y) THEN x[2] * y[3] > y[2] * x[3]
    ELSE IF x[1] = "nan" \/ y[1] = "nan" THEN FALSE
    ELSE IF x[1] = "inf" THEN y[1] # "inf"
    ELSE IF y[1] = "ninf" THEN x[1] # "ninf"
    ELSE IF x[1] = "ninf" \/ y[1] = "inf" THEN FALSE
    ELSE Sign(Sub(x, y)) = 1

\* x < y likewise.
Lt(x, y) == Gt(y, x)

\* acc * b^k, stopping as soon as it exceeds Limit (b >= 1, k >= 0).
RECURSIVE PowAcc(_, _, _)
PowAcc(b, k, acc) ==
    IF k = 0 \/ b = 1 \/ acc > Limit THEN acc ELSE PowAcc(b, k - 1, acc * b)

\* b^k, or some number above Limit when b^k is above Limit.
PowCap(b, k) == PowAcc(b, k, 1)

\* The integer r with r^q = a, or 0 when a is no perfect q-th power (a >= 1, q >= 1).
IRoot(a, q) ==
    IF a = 1 \/ q = 1 THEN a
    ELSE IF q > 14 THEN 0
    ELSE LET rs == {r \in 2..128 : r * r <= a /\ PowCap(r, q) = a}
         IN  IF rs = {} THEN 0 ELSE CHOOSE r \in rs : TRUE

\* floor(log2(i)) for i >= 1.
RECURSIVE FloorLog2(_)
FloorLog2(i) == IF i < 2 THEN 0 ELSE 1 + FloorLog2(i \div 2)

\* (a/b)^(p/q) for a, b, q >= 1, p # 0, a/b # 1, when it is not an exact
\* rational within Limit: Inf on certain overflow of a double (beyond 2^1024),
\* 0 on certain underflow, Pos when certainly a finite non-zero double,
\* Unk otherwise.
InexactPow(a, b, p, q) ==
    LET hi == IF a > b THEN a ELSE b
        lo == IF a > b THEN b ELSE a
        lbits == FloorLog2(hi \div lo)
        ubits == lbits + 1
        grows == (a > b) = (p > 0)
    IN  IF Abs(p) * ubits <= 1000 * q THEN Pos
        ELSE IF Abs(p) * lbits >= 1100 * q THEN (IF grows THEN Inf ELSE Zero)
        ELSE Unk

\* (a/b)^(p/q) for a, b, q >= 1 and p # 0.
RatPow(a, b, p, q) ==
    IF a = b THEN One
    ELSE LET ra == IRoot(a, q)
             rb == IRoot(b, q)
             k == Abs(p)
             na == IF ra = 0 THEN 0 ELSE PowCap(ra, k)
             nb == IF rb = 0 THEN 0 ELSE PowCap(rb, k)
         IN  IF ra = 0 \/ rb = 0 \/ na > Limit \/ nb > Limit
             THEN InexactPow(a, b, p, q)
             ELSE IF p > 0 THEN Rat(na, nb) ELSE Rat(nb, na)

\* numpy.power(x, e) on floats, e an exact rational or an untracked real.
Power(x, e) ==
    IF IsZero(e) THEN One
    ELSE IF x = One THEN One
    ELSE IF x[1] = "nan" \/ e[1] = "nan" THEN NaN
    ELSE IF x[1] = "unk" \/ ~IsRat(e) THEN Unk
    ELSE LET p == e[2]
             q == e[3]
             odd == q = 1 /\ p % 2 = 1
         IN  CASE x[1] = "rat" /\ x[2] > 0 -> RatPow(x[2], x[3], p, q)
               [] x[1] = "rat" /\ x[2] = 0 -> (IF p > 0 THEN Zero ELSE Inf)
               [] x[1] = "rat" /\ x[2] < 0 ->
                    (IF q # 1 THEN NaN
                     ELSE IF odd THEN Negate(RatPow(-x[2], x[3], p, q))
                     ELSE RatPow(-x[2], x[3], p, q))
               [] x[1] = "inf" -> (IF p > 0 THEN Inf ELSE Zero)
               [] x[1] = "ninf" -> (IF p < 0 THEN Zero ELSE IF odd THEN NInf ELSE Inf)
               [] x[1] = "pos" -> (IF Abs(p) <= 64 * q THEN Pos ELSE Unk)
               [] x[1] = "neg" -> (IF q # 1 THEN NaN
                                    ELSE IF Abs(p) > 64 THEN Unk
                                    ELSE IF odd THEN Neg ELSE Pos)

\* numpy.log(x): log(0) = -inf and log of a negative = nan, with warnings only.
Log(x) ==
    CASE x[1] = "rat" -> (IF x[2] = 0 THEN NInf
                          ELSE IF x[2] < 0 THEN NaN
                          ELSE IF x[2] = x[3] THEN Zero
                          ELSE IF x[2] > x[3] THEN Pos ELSE Neg)
      [] x[1] = "inf" -> Inf
      [] x[1] \in {"ninf", "neg", "nan"} -> NaN
      [] OTHER -> Unk

\* numpy.exp(x).
Exp(x) ==
    CASE x[1] = "rat" -> (IF x[2] = 0 THEN One ELSE IF x[2] < 0 THEN Pos ELSE Unk)
      [] x[1] = "ninf" -> Zero
      [] x[1] = "inf" -> Inf
      [] x[1] = "neg" -> Pos
      [] x[1] = "nan" -> NaN
      [] OTHER -> Unk

---------------------------------------------------------------------------
(* The instance and the caller *)

VARIABLES
    family,     \* which class the instance is: "Clayton", "Gumbel", "Independence"
    theta,      \* self.theta
    tau,        \* self.tau
    fitted,     \* self.fitted
    last        \* the call the caller has just made and what came of it

vars == <<family, theta, tau, fitted, last>>

Families == {"Clayton", "Gumbel", "Independence"}

\* What a call came to: a returned value or a raised exception.  searches counts
\* the invocations of scipy.optimize.fminbound the call made.
Ret(v) == [outcome |-> "returned", error |-> "", value |-> v, searches |-> 0]
RetSearched(v, n) == [outcome |-> "returned", error |-> "", value |-> v, searches |-> n]
Raise(e) == [outcome |-> "raised", error |-> e, value |-> <<>>, searches |-> 0]

\* The caller's record of a call: the method, its two arguments, the outcome.
Call(op, a, b, r) ==
    [op |-> op, a |-> a, b |-> b, outcome |-> r.outcome, error |-> r.error,
     value |-> r.value, searches |-> r.searches]

NoCall == Call("none", <<>>, <<>>, Raise(""))

---------------------------------------------------------------------------
(* Arrays *)

Col(X, j) == [i \in 1..Len(X) |-> X[i][j]]
Rows(U, V) == [i \in 1..Len(U) |-> <<U[i], V[i]>>]
AllZero(v) == \A i \in 1..Len(v) : IsZero(v[i])
zeros(n) == [i \in 1..n |-> Zero]

\* Sequences over S of length 0..n.
SeqUpTo(S, n) == UNION {[1..k -> S] : k \in 0..n}

\* Bivariate.split_matrix: whether X has exactly two columns.
TwoColumns(X) == \A i \in 1..Len(X) : Len(X[i]) = 2

\* Bivariate.split_matrix: the columns U, V of a two-column X.
split_matrix(X) == <<Col(X, 1), Col(X, 2)>>

\* Bivariate.check_fit: TRUE when the guard lets the call through.
check_fit == fitted

\* Python's max(x, 0): 0 when 0 > x, else x itself (so nan stays nan).
PyMax0(x) == IF x[1] = "neg" \/ Gt(Zero, x) THEN Zero ELSE x

\* x / y where the operands may be Python floats or numpy float64 scalars
\* (which of the two scipy.stats.kendalltau hands back is not fixed by the
\* sources): a zero divisor raises ZeroDivisionError on a Python float and
\* yields inf or nan on a numpy scalar.
PyScalarDiv(x, y) ==
    IF IsZero(y) THEN {Raise("ZeroDivisionError"), Ret(Div(x, y))}
    ELSE {Ret(Div(x, y))}

---------------------------------------------------------------------------
(* Clayton *)

\* Clayton.theta_interval[0]; the upper end is float('inf').
Clayton_theta_lower == -1

\* Clayton.invalid_thetas as it would be had the list been left empty.
Clayton_invalid_thetas_None == {}

\* Clayton.invalid_thetas
Clayton_invalid_thetas == {Zero}

\* The sentinel Clayton.compute_theta returns at tau = 1.
ClaytonSentinel == 10000

\* Clayton.generator
Clayton_generator(t) ==
    IF ~check_fit THEN Raise("UnfittedModelError")
    ELSE Ret([i \in 1..Len(t) |->
                Mul(Div(One, theta), Sub(Power(t[i], Negate(theta)), One))])

\* Clayton.probability_density
Clayton_probability_density(X) ==
    IF ~check_fit THEN Raise("UnfittedModelError")
    ELSE IF ~TwoColumns(X) THEN Raise("ShapeError")
    ELSE LET U == split_matrix(X)[1]
             V == split_matrix(X)[2]
             c == Div(Negate(Add(Mul(Rat(2, 1), theta), One)), theta)
         IN  Ret([i \in 1..Len(U) |->
                LET a == Mul(Add(theta, One),
                             Power(Mul(U[i], V[i]), Negate(Add(theta, One))))
                    b == Sub(Add(Power(U[i], Negate(theta)),
                                 Power(V[i], Negate(theta))), One)
                IN  Mul(a, Power(b, c))])

\* Clayton.cumulative_distribution without the per-pair test for a zero
\* coordinate: every pair goes through the power formula.
Clayton_cumulative_distribution_NoZeroCase(X) ==
    IF ~check_fit THEN Raise("UnfittedModelError")
    ELSE IF ~TwoColumns(X) THEN Raise("ShapeError")
    ELSE LET U == split_matrix(X)[1]
             V == split_matrix(X)[2]
         IN  IF AllZero(V) \/ AllZero(U) THEN Ret(zeros(Len(V)))
             ELSE LET cdfs == [i \in 1..Len(U) |->
                         Power(Sub(Add(Power(U[i], Negate(theta)),
                                       Power(V[i], Negate(theta))), One),
                               Div(Rat(-1, 1), theta))]
                  IN  Ret([i \in 1..Len(cdfs) |-> PyMax0(cdfs[i])])

\* Clayton.cumulative_distribution
Clayton_cumulative_distribution(X) ==
    IF ~check_fit THEN Raise("UnfittedModelError")
    ELSE IF ~TwoColumns(X) THEN Raise("ShapeError")
    ELSE LET U == split_matrix(X)[1]
             V == split_matrix(X)[2]
         IN  IF AllZero(V) \/ AllZero(U) THEN Ret(zeros(Len(V)))
             ELSE LET cdfs == [i \in 1..Len(U) |->
                         IF Gt(U[i], Zero) /\ Gt(V[i], Zero)
                         THEN Power(Sub(Add(Power(U[i], Negate(theta)),
                                            Power(V[i], Negate(theta))), One),
                                    Div(Rat(-1, 1), theta))
                         ELSE Zero]
                  IN  Ret([i \in 1..Len(cdfs) |-> PyMax0(cdfs[i])])

\* Clayton.percent_point
Clayton_percent_point(y, V) ==
    IF ~check_fit THEN Raise("UnfittedModelError")
    ELSE IF Lt(theta, Zero) THEN Ret(V)
    ELSE Ret([i \in 1..Len(V) |->
                LET a == Power(y[i], Div(theta, Sub(Rat(-1, 1), theta)))
                    b == Power(V[i], theta)
                IN  Power(Div(Sub(Add(a, b), One), b), Div(Rat(-1, 1), theta))])

\* Clayton.partial_derivative
Clayton_partial_derivative(X, y) ==
    IF ~check_fit THEN Raise("UnfittedModelError")
    ELSE IF ~TwoColumns(X) THEN Raise("ShapeError")
    ELSE LET U == split_matrix(X)[1]
             V == split_matrix(X)[2]
         IN  IF theta = Zero THEN Ret(V)
             ELSE Ret([i \in 1..Len(U) |->
                    LET A == Power(V[i], Sub(Negate(theta), One))
                        B == Sub(Add(Power(V[i], Negate(theta)),
                                     Power(U[i], Negate(theta))), One)
                        h == Power(B, Div(Sub(Rat(-1, 1), theta), theta))
                    IN  Sub(Mul(A, h), y)])

\* Clayton.compute_theta without the branch for tau = 1.
Clayton_compute_theta_NoSentinel(t) ==
    IF t = None THEN {Raise("TypeError")}
    ELSE PyScalarDiv(Mul(Rat(2, 1), t), Sub(One, t))

\* Clayton.compute_theta with self.tau = t: the set of outcomes a call can have.
Clayton_compute_theta(t) ==
    IF t = None THEN {Raise("TypeError")}
    ELSE IF t = One THEN {Ret(Rat(ClaytonSentinel, 1))}
    ELSE PyScalarDiv(Mul(Rat(2, 1), t), Sub(One, t))

---------------------------------------------------------------------------
(* Gumbel *)

\* Gumbel.theta_interval[0]; the upper end is float('inf').
Gumbel_theta_lower == 1

\* Gumbel.invalid_thetas
Gumbel_invalid_thetas == {}

\* -numpy.log(x)
NegLog(x) == Negate(Log(x))

\* One element of Gumbel.cumulative_distribution's closed form (theta # 1).
Gumbel_cdf_term(u, v) ==
    LET h == Add(Power(NegLog(u), theta), Power(NegLog(v), theta))
    IN  Exp(Negate(Power(h, Div(One, theta))))

\* Gumbel.generator
Gumbel_generator(t) ==
    IF theta = None THEN Raise("TypeError")
    ELSE Ret([i \in 1..Len(t) |-> Power(NegLog(t[i]), theta)])

\* Gumbel.cumulative_distribution
Gumbel_cumulative_distribution(X) ==
    IF ~check_fit THEN Raise("UnfittedModelError")
    ELSE IF ~TwoColumns(X) THEN Raise("ShapeError")
    ELSE LET U == split_matrix(X)[1]
             V == split_matrix(X)[2]
         IN  IF theta = One THEN Ret([i \in 1..Len(U) |-> Mul(U[i], V[i])])
             ELSE Ret([i \in 1..Len(U) |-> Gumbel_cdf_term(U[i], V[i])])

\* Gumbel.probability_density
Gumbel_probability_density(X) ==
    IF ~check_fit THEN Raise("UnfittedModelError")
    ELSE IF ~TwoColumns(X) THEN Raise("ShapeError")
    ELSE LET U == split_matrix(X)[1]
             V == split_matrix(X)[2]
         IN  IF theta = One THEN Ret([i \in 1..Len(U) |-> Mul(U[i], V[i])])
             ELSE Ret([i \in 1..Len(U) |->
                    LET a == Power(Mul(U[i], V[i]), Rat(-1, 1))
                        tmp == Add(Power(NegLog(U[i]), theta), Power(NegLog(V[i]), theta))
                        b == Power(tmp, Add(Rat(-2, 1), Div(Rat(2, 1), theta)))
                        c == Power(Mul(Log(U[i]), Log(V[i])), Sub(theta, One))
                        d == Add(One, Mul(Sub(theta, One),
                                          Power(tmp, Div(Rat(-1, 1), theta))))
                    IN  Mul(Mul(Mul(Mul(Gumbel_cdf_term(U[i], V[i]), a), b), c), d)])

\* Gumbel.percent_point without the branch for theta = 1.
Gumbel_percent_point_AlwaysSearches(y, V) ==
    IF ~check_fit THEN Raise("UnfittedModelError")
    ELSE RetSearched([i \in 1..Len(y) |-> Pos], Len(y))

\* Gumbel.percent_point.  For theta # 1 each zipped pair costs one bounded
\* search, fminbound(partial_derivative_scalar, EPSILON, 1.0), whose result is
\* a point of [EPSILON, 1.0] that is not tracked.
Gumbel_percent_point(y, V) ==
    IF ~check_fit THEN Raise("UnfittedModelError")
    ELSE IF theta = One THEN Ret(y)
    ELSE RetSearched([i \in 1..Len(y) |-> Pos], Len(y))

\* Gumbel.partial_derivative
Gumbel_partial_derivative(X, y) ==
    IF ~check_fit THEN Raise("UnfittedModelError")
    ELSE IF ~TwoColumns(X) THEN Raise("ShapeError")
    ELSE LET U == split_matrix(X)[1]
             V == split_matrix(X)[2]
         IN  IF theta = One THEN Ret(V)
             ELSE Ret([i \in 1..Len(U) |->
                    LET t1 == Power(NegLog(U[i]), theta)
                        t2 == Power(NegLog(V[i]), theta)
                        p1 == Gumbel_cdf_term(U[i], V[i])
                        p2 == Power(Add(t1, t2), Add(Rat(-1, 1), Div(One, theta)))
                        p3 == Power(NegLog(V[i]), Sub(theta, One))
                    IN  Sub(Div(Mul(Mul(p1, p2), p3), V[i]), y)])

\* Gumbel.compute_theta with self.tau = t: the set of outcomes a call can have.
Gumbel_compute_theta(t) ==
    IF t = None THEN {Raise("TypeError")}
    ELSE PyScalarDiv(One, Sub(One, t))

---------------------------------------------------------------------------
(* Independence *)

\* Independence.generator
Independence_generator(t) == Ret([i \in 1..Len(t) |-> Log(t[i])])

\* Independence.probability_density: scipy.stats.multivariate_normal.pdf with
\* identity covariance, a positive density per row; rows that are not pairs do
\* not broadcast against the two-dimensional mean.
Independence_probability_density(X) ==
    IF ~TwoColumns(X) THEN Raise("ValueError")
    ELSE Ret([i \in 1..Len(X) |-> Pos])

\* Independence.cumulative_distribution
Independence_cumulative_distribution(X) ==
    IF ~TwoColumns(X) THEN Raise("ShapeError")
    ELSE LET U == split_matrix(X)[1]
             V == split_matrix(X)[2]
         IN  Ret([i \in 1..Len(U) |-> Mul(U[i], V[i])])

\* Independence.partial_derivative: it takes X alone, so passing an offset is
\* a TypeError; y = None stands for a call without the offset.
Independence_partial_derivative(X, y) ==
    IF y # None THEN Raise("TypeError") ELSE Ret(X)

\* Independence.percent_point
Independence_percent_point(y, V) ==
    IF ~check_fit THEN Raise("UnfittedModelError") ELSE Ret(V)

---------------------------------------------------------------------------
(* fit *)

\* scipy.stats.kendalltau on the columns of a tie-free sample of n >= 2 pairs:
\* (concordant - discordant) / (n (n - 1) / 2).
KendallTau(U, V) ==
    LET n == Len(U)
        pairs == {ij \in (1..n) \X (1..n) : ij[1] < ij[2]}
        conc == {ij \in pairs : Gt(U[ij[1]], U[ij[2]]) = Gt(V[ij[1]], V[ij[2]])}
    IN  Norm(2 * Cardinality(conc) - Cardinality(pairs), Cardinality(pairs))

\* The family's compute_theta with self.tau = t.
compute_theta(t) ==
    IF family = "Clayton" THEN Clayton_compute_theta(t) ELSE Gumbel_compute_theta(t)

\* Whether th lies inside the family's theta_interval (lower end included, the
\* upper end float('inf') not) and is none of its invalid_thetas.
ThetaInDomain(th) ==
    LET lower == IF family = "Clayton" THEN Clayton_theta_lower ELSE Gumbel_theta_lower
        invalid == IF family = "Clayton" THEN Clayton_invalid_thetas
                   ELSE Gumbel_invalid_thetas
    IN  IsRat(th) /\ ~Lt(th, Rat(lower, 1)) /\ th \notin invalid

\* Bivariate.fit (Clayton, Gumbel): split X, store Kendall's tau, derive theta
\* from it with compute_theta, and accept theta only inside the domain.
Bivariate_fit(X) ==
    IF ~TwoColumns(X)
    THEN /\ last' = Call("fit", X, None, Raise("ShapeError"))
         /\ UNCHANGED <<theta, tau, fitted>>
    ELSE /\ tau' = KendallTau(split_matrix(X)[1], split_matrix(X)[2])
         /\ \E r \in compute_theta(tau') :
              IF r.outcome = "raised"
              THEN /\ last' = Call("fit", X, None, r)
                   /\ UNCHANGED <<theta, fitted>>
              ELSE IF ~ThetaInDomain(r.value)
              THEN /\ last' = Call("fit", X, None, Raise("ParameterDomainError"))
                   /\ UNCHANGED <<theta, fitted>>
              ELSE /\ theta' = r.value
                   /\ fitted' = TRUE
                   /\ last' = Call("fit", X, None, Ret(<<>>))

\* Independence.fit as it would be had it kept the base class's first step,
\* storing Kendall's tau of the sample.
Independence_fit_StoresTau(X) ==
    /\ last' = Call("fit", X, None, Ret(<<>>))
    /\ tau' = IF TwoColumns(X) THEN KendallTau(Col(X, 1), Col(X, 2)) ELSE NaN
    /\ UNCHANGED <<theta, fitted>>

\* Independence.fit as it would be had it marked the instance fitted.
Independence_fit_MarksFitted(X) ==
    /\ last' = Call("fit", X, None, Ret(<<>>))
    /\ fitted' = TRUE
    /\ UNCHANGED <<theta, tau>>

\* Independence.fit
Independence_fit(X) ==
    /\ last' = Call("fit", X, None, Ret(<<>>))
    /\ UNCHANGED <<theta, tau, fitted>>

---------------------------------------------------------------------------
(* Dispatch on the instance's class *)

generator(t) ==
    CASE family = "Clayton" -> Clayton_generator(t)
      [] family = "Gumbel" -> Gumbel_generator(t)
      [] family = "Independence" -> Independence_generator(t)

probability_density(X) ==
    CASE family = "Clayton" -> Clayton_probability_density(X)
      [] family = "Gumbel" -> Gumbel_probability_density(X)
      [] family = "Independence" -> Independence_probability_density(X)

cumulative_distribution(X) ==
    CASE family = "Clayton" -> Clayton_cumulative_distribution(X)
      [] family = "Gumbel" -> Gumbel_cumulative_distribution(X)
      [] family = "Independence" -> Independence_cumulative_distribution(X)

\* y = None is a call that leaves the offset to its default, 0.
partial_derivative(X, y) ==
    LET off == IF y = None THEN Zero ELSE y
    IN  CASE family = "Clayton" -> Clayton_partial_derivative(X, off)
          [] family = "Gumbel" -> Gumbel_partial_derivative(X, off)
          [] family = "Independence" -> Independence_partial_derivative(X, y)

percent_point(y, V) ==
    CASE family = "Clayton" -> Clayton_percent_point(y, V)
      [] family = "Gumbel" -> Gumbel_percent_point(y, V)
      [] family = "Independence" -> Independence_percent_point(y, V)

---------------------------------------------------------------------------
(* Inputs *)

\* Values of the first and of the second column: the corners 0 and 1 and one
\* interior point each, with rational square roots.
GridU == {Zero, Rat(1, 16), One}
GridV == {Zero, Rat(1, 4), One}

Pairs == {<<u, v>> : u \in GridU, v \in GridV}

\* n x 2 matrices, n = 0..MaxLen.
Matrices == SeqUpTo(Pairs, MaxLen)

\* The empty and the one-row matrices, for the methods that work row by row.
RowMatrices == {<<>>} \cup {<<p>> : p \in Pairs}

\* A matrix of three columns.
BadMatrices == {<< <<One, One, One>> >>}

\* The empty and the one-element vectors handed to generator.
Vectors == {<<>>} \cup {<<x>> : x \in GridU \cup GridV}

\* Offsets handed to partial_derivative; None leaves the default.
Offsets == {None, Rat(1, 4)}

Perms(n) == {p \in [1..n -> 1..n] : \A i, j \in 1..n : p[i] = p[j] => i = j}

\* Tie-free samples of n = 2..MaxSamples pairs inside (0, 1): the ranks of the
\* second column are a permutation of those of the first.
FitSamples ==
    UNION {{[i \in 1..n |-> <<Norm(i, n + 1), Norm(p[i], n + 1)>>] : p \in Perms(n)} :
           n \in 2..MaxSamples}

---------------------------------------------------------------------------
(* The caller's steps *)

Init ==
    /\ family \in Families
    /\ theta = None
    /\ tau = None
    /\ fitted = FALSE
    /\ last = NoCall

\* An evaluator call: the instance is read, never written.
Evaluate(op, a, b, r) ==
    /\ last' = Call(op, a, b, r)
    /\ UNCHANGED <<family, theta, tau, fitted>>

Fit ==
    /\ last.op = "none"
    /\ UNCHANGED family
    /\ \E X \in FitSamples \cup BadMatrices :
         IF family = "Independence" THEN Independence_fit(X) ELSE Bivariate_fit(X)

Generator ==
    /\ last.op = "none"
    /\ \E t \in Vectors : Evaluate("generator", t, None, generator(t))

ProbabilityDensity ==
    /\ last.op = "none"
    /\ \E X \in RowMatrices \cup BadMatrices :
         Evaluate("probability_density", X, None, probability_density(X))

CumulativeDistribution ==
    /\ last.op = "none"
    /\ \E X \in Matrices \cup BadMatrices :
         Evaluate("cumulative_distribution", X, None, cumulative_distribution(X))

PartialDerivative ==
    /\ last.op = "none"
    /\ \E X \in RowMatrices \cup BadMatrices, y \in Offsets :
         Evaluate("partial_derivative", X, y, partial_derivative(X, y))

PercentPoint ==
    /\ last.op = "none"
    /\ \E P \in RowMatrices :
         Evaluate("percent_point", Col(P, 1), Col(P, 2),
                  percent_point(Col(P, 1), Col(P, 2)))

ComputeTheta ==
    /\ last.op = "none"
    /\ family # "Independence"
    /\ \E r \in compute_theta(tau) : Evaluate("compute_theta", <<>>, None, r)

\* The caller is done with the result and free to make the next call.
Return ==
    /\ last.op # "none"
    /\ last' = NoCall
    /\ UNCHANGED <<family, theta, tau, fitted>>

Next ==
    \/ Fit
    \/ Generator
    \/ ProbabilityDensity
    \/ CumulativeDistribution
    \/ PartialDerivative
    \/ PercentPoint
    \/ ComputeTheta
    \/ Return

Spec == Init /\ [][Next]_vars

---------------------------------------------------------------------------
(* Properties *)

\* The methods C1 and C6 call evaluation operations.
Evaluators ==
    {"generator", "probability_density", "cumulative_distribution",
     "partial_derivative", "percent_point"}

\* x is a rational strictly between 0 and 1.
Interior(x) == IsRat(x) /\ x[2] > 0 /\ x[2] < x[3]

\* th is a rational inside the family's parameter domain, written out:
\* Clayton [-1, inf) without 0, Gumbel [1, inf).
ThetaValid(th) ==
    /\ IsRat(th)
    /\ family = "Clayton" => (th[2] >= -th[3] /\ th[2] # 0)
    /\ family = "Gumbel" => th[2] >= th[3]

\* C1: an evaluation operation called on an instance with fitted = false fails
\* with UnfittedModelError and returns nothing (generator counted where it
\* reads theta, that is for Clayton and Gumbel).
C1_UnfittedEvaluatorRaises ==
    (/\ ~fitted
     /\ last.op \in Evaluators
     /\ last.op = "generator" => family # "Independence")
    => (last.outcome = "raised" /\ last.error = "UnfittedModelError")

\* C2: a fitted Clayton or Gumbel instance always holds a theta inside its
\* domain; a fit on a two-column sample either stores a theta that
\* compute_theta returned and that lies in the domain, or raises and leaves
\* theta and fitted as they were, raising ParameterDomainError whenever
\* compute_theta returned a value outside the domain.
C2_FittedThetaInDomain ==
    /\ [](fitted => ThetaValid(theta))
    /\ [][(last'.op = "fit" /\ family # "Independence" /\ TwoColumns(last'.a)) =>
            LET outs == compute_theta(tau')
            IN  IF last'.outcome = "returned"
                THEN /\ fitted'
                     /\ \E r \in outs : r.outcome = "returned" /\ r.value = theta'
                     /\ ThetaValid(theta')
                ELSE /\ UNCHANGED <<theta, fitted>>
                     /\ \/ /\ last'.error = "ParameterDomainError"
                           /\ \E r \in outs : r.outcome = "returned" /\ ~ThetaValid(r.value)
                        \/ \E r \in outs : r.outcome = "raised" /\ r.error = last'.error]_vars

\* C2's case: an instance fitted earlier whose latest fit was rejected.
C2_Witness ==
    /\ family = "Clayton"
    /\ fitted
    /\ last.op = "fit"
    /\ last.error = "ParameterDomainError"

\* partial_derivative at the pair (u, v) with the default offset 0 gives y,
\* as far as the value is tracked.
Reproduces(u, v, y) ==
    LET r == partial_derivative(<< <<u, v>> >>, None)
    IN  /\ r.outcome = "returned"
        /\ r.value[1] \in {Pos, Unk} \/ r.value[1] = y

\* C3: for y, v inside (0, 1), partial_derivative at (percent_point(y, v), v)
\* reproduces y.
C3_RoundTrip ==
    (last.op = "percent_point" /\ last.outcome = "returned") =>
        \A i \in 1..Len(last.value) :
            (Interior(last.a[i]) /\ Interior(last.b[i]))
            => Reproduces(last.value[i], last.b[i], last.a[i])

\* C4: cumulative_distribution, once past the fit guard, returns for every
\* n x 2 input a vector of length n that is 1 at a pair (1, 1) and 0 at every
\* pair with a zero coordinate.
C4_CdfBoundary ==
    (/\ last.op = "cumulative_distribution"
     /\ TwoColumns(last.a)
     /\ fitted \/ family = "Independence")
    => /\ last.outcome = "returned"
       /\ Len(last.value) = Len(last.a)
       /\ \A i \in 1..Len(last.a) :
            /\ last.a[i] = <<One, One>> => last.value[i] = One
            /\ (IsZero(last.a[i][1]) \/ IsZero(last.a[i][2])) => last.value[i] = Zero

\* C4's case: a fitted Clayton evaluated at a pair (1, 1) together with a pair
\* (u, 0), u > 0.
C4_Witness ==
    /\ family = "Clayton"
    /\ fitted
    /\ last.op = "cumulative_distribution"
    /\ last.outcome = "returned"
    /\ \E i, j \in 1..Len(last.a) :
         /\ last.a[i] = <<One, One>>
         /\ ~IsZero(last.a[j][1]) /\ IsZero(last.a[j][2])

\* C5: on a Gumbel instance fitted with theta = 1, cumulative_distribution
\* returns the products u * v, and percent_point returns y without a single
\* bounded search.
C5_GumbelIndependenceLimit ==
    (family = "Gumbel" /\ fitted /\ theta = One) =>
        /\ (last.op = "cumulative_distribution" /\ TwoColumns(last.a)) =>
              /\ last.outcome = "returned"
              /\ last.value = [i \in 1..Len(last.a) |-> Mul(last.a[i][1], last.a[i][2])]
        /\ last.op = "percent_point" =>
              /\ last.outcome = "returned"
              /\ last.value = last.a
              /\ last.searches = 0

\* C5's case: percent_point on a non-empty y at theta = 1.
C5_Witness ==
    /\ family = "Gumbel"
    /\ fitted
    /\ theta = One
    /\ last.op = "percent_point"
    /\ Len(last.a) > 0
    /\ Interior(last.a[1])

\* C6: only fit of Clayton or Gumbel writes theta, tau or fitted: a step that
\* is Independence.fit or any evaluator call leaves all three as they were.
C6_OnlyFitWrites ==
    [][(last'.op # "fit" \/ family = "Independence")
        => UNCHANGED <<theta, tau, fitted>>]_vars

\* C6's case: Independence.fit has accepted a matrix that is not n x 2.
C6_Witness ==
    /\ family = "Independence"
    /\ last.op = "fit"
    /\ ~TwoColumns(last.a)
    /\ last.outcome = "returned"
    /\ theta = None /\ tau = None /\ ~fitted

\* C7: Clayton.compute_theta returns 10000 at tau = 1 and the rational
\* 2 tau / (1 - tau) at every other tau: always a finite number.
C7_ClaytonComputeTheta ==
    (family = "Clayton" /\ last.op = "compute_theta" /\ tau # None) =>
        /\ last.outcome = "returned"
        /\ IsRat(last.value)
        /\ IF tau = One THEN last.value = Rat(10000, 1)
           ELSE last.value[2] * (tau[3] - tau[2]) = 2 * tau[2] * last.value[3]

\* C7's case: compute_theta called with tau = 1.
C7_Witness ==
    /\ family = "Clayton"
    /\ last.op = "compute_theta"
    /\ tau = One
    /\ last.outcome = "returned"

\* The base u^-theta + v^-theta - 1 of Clayton's distribution function.
ClaytonBase(u, v) == Sub(Add(Power(u, Negate(theta)), Power(v, Negate(theta))), One)

\* C8: for a pair with u > 0 and v > 0 Clayton.cumulative_distribution takes
\* the power of max(base, 0), so a negative base gives 0^(-1/theta).
C8_BaseClampedBeforePower ==
    (/\ family = "Clayton"
     /\ last.op = "cumulative_distribution"
     /\ last.outcome = "returned")
    => \A i \in 1..Len(last.a) :
          LET u == last.a[i][1]
              v == last.a[i][2]
          IN  (Gt(u, Zero) /\ Gt(v, Zero) /\ Sign(ClaytonBase(u, v)) = -1)
              => last.value[i] = Power(Zero, Div(Rat(-1, 1), theta))

\* C9: on a Gumbel instance fitted with theta = 1, partial_derivative(X, y)
\* returns V - y.
C9_GumbelOffsetAtOne ==
    (/\ family = "Gumbel" /\ fitted /\ theta = One
     /\ last.op = "partial_derivative"
     /\ TwoColumns(last.a))
    => /\ last.outcome = "returned"
       /\ last.value = [i \in 1..Len(last.a) |->
                           Sub(last.a[i][2], IF last.b = None THEN Zero ELSE last.b)]

\* C10: an Independence instance is never fitted, so its percent_point never
\* returns: every call fails the fit guard with UnfittedModelError.
C10_IndependenceNeverFitted ==
    family = "Independence" =>
        /\ ~fitted
        /\ last.op = "percent_point" =>
              (last.outcome = "raised" /\ last.error = "UnfittedModelError")

\* C10's case: percent_point called on an Independence instance.
C10_Witness ==
    /\ family = "Independence"
    /\ last.op = "percent_point"
    /\ Len(last.a) > 0
    /\ last.outcome = "raised"

=============================================================================
